---------------------------- MODULE Spec2Model ----------------------------
(***************************************************************************)
(* Model of the multi-tenant request isolation of the Kontent.ai MCP       *)
(* server: the authentication middleware (src/middleware/auth.ts), the     *)
(* request context carrier (src/context/requestContext.ts), the client     *)
(* factory (createMapiClient) and the HTTP/SSE route handlers (src/bin.ts).*)
(*                                                                         *)
(* JavaScript strings are sequences of one-character strings; the value    *)
(* `undefined` is a reserved one-element sequence that no string equals.   *)
(***************************************************************************)
EXTENDS Integers, Sequences, FiniteSets, TLC

VARIABLES
    req,          \* SpecAuth: the AuthRequest handed to authMiddleware
    res,          \* SpecAuth: the response authMiddleware may have sent
    nextCalls,    \* SpecAuth: how many times next() was called
    authDone,     \* SpecAuth: authMiddleware has run on req
    tasks,        \* SpecCtx: the asynchronous executions, each with the store it captured
    callStack,    \* SpecCtx: the synchronously nested frames now running, innermost last
    currentStore, \* SpecCtx: the store of the executing async resource (what getStore() reads)
    lastCall,     \* SpecCtx: the latest getRequestContext / createMapiClient call and its outcome
    processEnv,   \* process.env.KONTENT_API_KEY / KONTENT_ENVIRONMENT_ID
    multiTenant,  \* Spec: the server runs with --multi-tenant
    transportType,\* Spec: "shttp" (startStreamableHTTP) or "sse" (startSSE)
    requests,     \* Spec: the inbound requests and how far each has got
    transport     \* Spec: startSSE's `let transport`: the GET /sse that last assigned it, 0 if none

authVars == <<req, res, nextCalls, authDone>>

ctxVars == <<tasks, callStack, currentStore, lastCall>>

serverVars == <<multiTenant, transportType, requests, transport>>

vars == <<authVars, ctxVars, processEnv, serverVars>>

-----------------------------------------------------------------------------
(* Bounds *)

\* longest remainder after the scheme marker / longest namespace header
MaxTokenLen == 2

\* number of asynchronous executions (root callbacks, extents, spawned work)
MaxTasks == 3

\* number of inbound requests the server sees
MaxRequests == 3

-----------------------------------------------------------------------------
(* JavaScript values *)

undefined == <<"<undefined>">>

EmptyString == <<>>

\* JavaScript truthiness of a string-or-undefined value: `!v` is Falsy(v)
Falsy(v) == v = undefined \/ v = EmptyString

\* a ?? b
Coalesce(a, b) == IF a = undefined THEN b ELSE a

BearerPrefix == <<"B", "e", "a", "r", "e", "r", " ">>

BearerPrefixLen == 7

\* String.prototype.startsWith
StartsWith(s, p) ==
    /\ Len(s) >= Len(p)
    /\ SubSeq(s, 1, Len(p)) = p

\* String.prototype.substring(n), n >= 0
Substring(s, n) == IF n >= Len(s) THEN EmptyString ELSE SubSeq(s, n + 1, Len(s))

IsSpace(c) == c = " "

RECURSIVE TrimStart(_)
TrimStart(s) ==
    IF s = EmptyString THEN s
    ELSE IF IsSpace(Head(s)) THEN TrimStart(Tail(s)) ELSE s

RECURSIVE TrimEnd(_)
TrimEnd(s) ==
    IF s = EmptyString THEN s
    ELSE IF IsSpace(s[Len(s)]) THEN TrimEnd(SubSeq(s, 1, Len(s) - 1)) ELSE s

\* String.prototype.trim
Trim(s) == TrimEnd(TrimStart(s))

-----------------------------------------------------------------------------
(* Inputs of the middleware *)

RECURSIVE SeqsUpTo(_, _)
SeqsUpTo(S, n) ==
    IF n = 0 THEN {EmptyString}
    ELSE LET shorter == SeqsUpTo(S, n - 1)
         IN  shorter \cup {Append(s, c) : s \in shorter, c \in S}

TokenChars == {"a", "b", " "}

NamespaceChars == {"1", " "}

Schemes ==
    { EmptyString,
      BearerPrefix,
      <<"B", "e", "a", "r", "e", "r">>,
      <<"b", "e", "a", "r", "e", "r", " ">>,
      <<"T", "o", "k", "e", "n", " ">> }

AuthorizationHeaders ==
    {undefined} \cup {s \o r : s \in Schemes, r \in SeqsUpTo(TokenChars, MaxTokenLen)}

EnvironmentIdHeaders ==
    {undefined} \cup SeqsUpTo(NamespaceChars, MaxTokenLen)

-----------------------------------------------------------------------------
(* src/middleware/auth.ts *)

HttpUnauthorized == 401

HttpBadRequest == 400

CodeUnauthorized == -32001

CodeInvalidParams == -32602

NoResponse == [sent |-> FALSE, status |-> 0, code |-> 0, message |-> "", id |-> ""]

\* res.status(status).json({jsonrpc: "2.0", error: {code, message}, id: null})
JsonRpcError(status, code, message) ==
    [sent |-> TRUE, status |-> status, code |-> code, message |-> message, id |-> "null"]

NewRequest(authorization, xEnvironmentId) ==
    [authorization |-> authorization, xEnvironmentId |-> xEnvironmentId,
     apiKey |-> undefined, environmentId |-> undefined]

\* line 27: authHeader.substring(7), the comment's "Remove Bearer prefix"
extractTokenOffByOne(authHeader) == Substring(authHeader, BearerPrefixLen - 1)

extractTokenTrimmed(authHeader) == Trim(Substring(authHeader, BearerPrefixLen))

extractToken(authHeader) == Substring(authHeader, BearerPrefixLen)

MissingCredentialResponse ==
    JsonRpcError(HttpUnauthorized, CodeUnauthorized, "Unauthorized: Bearer token required")

EmptyCredentialResponseSameMessage == MissingCredentialResponse

EmptyCredentialResponse ==
    JsonRpcError(HttpUnauthorized, CodeUnauthorized, "Unauthorized: Invalid Bearer token")

MissingNamespaceResponse ==
    JsonRpcError(HttpBadRequest, CodeInvalidParams,
                 "Bad Request: X-Environment-ID header required")

\* lines 44-59 with the `return` of line 55 left out: the rejection is sent
\* and the request proceeds all the same
checkNamespaceNoReturn(r) ==
    LET environmentId == r.xEnvironmentId
    IN  [req  |-> [r EXCEPT !.environmentId = environmentId],
         res  |-> IF Falsy(environmentId) THEN MissingNamespaceResponse ELSE NoResponse,
         next |-> 1]

\* lines 44-59: the namespace check, on a request that already carries apiKey
checkNamespace(r) ==
    LET environmentId == r.xEnvironmentId
    IN  IF Falsy(environmentId)
        THEN [req |-> r, res |-> MissingNamespaceResponse, next |-> 0]
        ELSE [req  |-> [r EXCEPT !.environmentId = environmentId],
              res  |-> NoResponse,
              next |-> 1]

\* the middleware with the namespace header looked at before the credential
authMiddlewareNamespaceFirst(r) ==
    LET authHeader == r.authorization
    IN  IF Falsy(r.xEnvironmentId)
        THEN [req |-> r, res |-> MissingNamespaceResponse, next |-> 0]
        ELSE IF Falsy(authHeader) \/ ~StartsWith(authHeader, BearerPrefix)
        THEN [req |-> r, res |-> MissingCredentialResponse, next |-> 0]
        ELSE
        LET token == extractToken(authHeader)
        IN  IF Falsy(token)
            THEN [req |-> r, res |-> EmptyCredentialResponse, next |-> 0]
            ELSE checkNamespace([r EXCEPT !.apiKey = token])

\* The middleware as a function of the request: the request as it leaves the
\* middleware, the response sent (if any) and the number of next() calls.
authMiddleware(r) ==
    LET authHeader == r.authorization
    IN  IF Falsy(authHeader) \/ ~StartsWith(authHeader, BearerPrefix)
        THEN [req |-> r, res |-> MissingCredentialResponse, next |-> 0]
        ELSE
        LET token == extractToken(authHeader)
        IN  IF Falsy(token)
            THEN [req |-> r, res |-> EmptyCredentialResponse, next |-> 0]
            ELSE checkNamespace([r EXCEPT !.apiKey = token])

-----------------------------------------------------------------------------
(* SpecAuth: authMiddleware applied to one request with arbitrary headers *)

\* no request has been handed to the middleware
AuthIdle ==
    /\ req = NewRequest(undefined, undefined)
    /\ res = NoResponse
    /\ nextCalls = 0
    /\ authDone = FALSE

\* a request with arbitrary headers is about to enter the middleware
AuthInputs ==
    /\ req \in {NewRequest(a, e) : a \in AuthorizationHeaders, e \in EnvironmentIdHeaders}
    /\ res = NoResponse
    /\ nextCalls = 0
    /\ authDone = FALSE

RunAuthMiddleware ==
    /\ ~authDone
    /\ LET out == authMiddleware(req)
       IN  /\ req' = out.req
           /\ res' = out.res
           /\ nextCalls' = nextCalls + out.next
    /\ authDone' = TRUE
    /\ UNCHANGED <<ctxVars, processEnv, serverVars>>

NextAuth == RunAuthMiddleware

-----------------------------------------------------------------------------
(* src/context/requestContext.ts *)

\* getStore() outside every run(): no RequestContext
NoStore == [bound |-> FALSE, apiKey |-> undefined, environmentId |-> undefined]

\* a RequestContext {apiKey, environmentId}
RequestContext(apiKey, environmentId) ==
    [bound |-> TRUE, apiKey |-> apiKey, environmentId |-> environmentId]

NoActiveContext == "Request context not available - authorization required"

\* requestContextStorage.run(context, fn) with the context dropped: fn runs
\* under whatever store the caller had
runStoreUnbound(context, outerStore) == outerStore

\* runWithContext(context, fn) = requestContextStorage.run(context, fn): the
\* store fn runs under, given the store of the caller
runStore(context, outerStore) == context

\* getRequestContext(), given what requestContextStorage.getStore() returns
getRequestContext(store) ==
    IF ~store.bound
    THEN [ok |-> FALSE, context |-> NoStore, error |-> NoActiveContext]
    ELSE [ok |-> TRUE, context |-> store, error |-> ""]

-----------------------------------------------------------------------------
(* createMapiClient (src/unnamed/part_000) *)

MissingApiKey == "API key not provided (neither in context nor environment)"

MissingEnvironmentId == "Environment ID not provided (neither in context nor environment)"

NoClient == [apiKey |-> undefined, environmentId |-> undefined]

\* utils/throwError: raises an Error carrying the message
throwError(message) == [ok |-> FALSE, client |-> NoClient, error |-> message]

\* createManagementClient({apiKey, environmentId, headers})
createManagementClient(apiKey, environmentId) ==
    [ok |-> TRUE, client |-> [apiKey |-> apiKey, environmentId |-> environmentId],
     error |-> ""]

\* createMapiClient reading the environment before the bound context
createMapiClientEnvFirst(environmentId, apiKey, store, env) ==
    LET lookup == getRequestContext(store)
        finalApiKey ==
            IF lookup.ok
            THEN Coalesce(Coalesce(apiKey, env.KONTENT_API_KEY), lookup.context.apiKey)
            ELSE Coalesce(apiKey, env.KONTENT_API_KEY)
        finalEnvironmentId ==
            IF lookup.ok
            THEN Coalesce(Coalesce(environmentId, env.KONTENT_ENVIRONMENT_ID),
                          lookup.context.environmentId)
            ELSE Coalesce(environmentId, env.KONTENT_ENVIRONMENT_ID)
    IN  IF Falsy(finalApiKey) THEN throwError(MissingApiKey)
        ELSE IF Falsy(finalEnvironmentId) THEN throwError(MissingEnvironmentId)
        ELSE createManagementClient(finalApiKey, finalEnvironmentId)

\* createMapiClient letting the bound context win over the arguments
createMapiClientContextFirst(environmentId, apiKey, store, env) ==
    LET lookup == getRequestContext(store)
        finalApiKey ==
            IF lookup.ok
            THEN Coalesce(lookup.context.apiKey, apiKey)
            ELSE Coalesce(apiKey, env.KONTENT_API_KEY)
        finalEnvironmentId ==
            IF lookup.ok
            THEN Coalesce(lookup.context.environmentId, environmentId)
            ELSE Coalesce(environmentId, env.KONTENT_ENVIRONMENT_ID)
    IN  IF Falsy(finalApiKey) THEN throwError(MissingApiKey)
        ELSE IF Falsy(finalEnvironmentId) THEN throwError(MissingEnvironmentId)
        ELSE createManagementClient(finalApiKey, finalEnvironmentId)

\* createMapiClient checking the environment id before the API key
createMapiClientNamespaceChecked1st(environmentId, apiKey, store, env) ==
    LET lookup == getRequestContext(store)
        finalApiKey ==
            IF lookup.ok
            THEN Coalesce(apiKey, lookup.context.apiKey)
            ELSE Coalesce(apiKey, env.KONTENT_API_KEY)
        finalEnvironmentId ==
            IF lookup.ok
            THEN Coalesce(environmentId, lookup.context.environmentId)
            ELSE Coalesce(environmentId, env.KONTENT_ENVIRONMENT_ID)
    IN  IF Falsy(finalEnvironmentId) THEN throwError(MissingEnvironmentId)
        ELSE IF Falsy(finalApiKey) THEN throwError(MissingApiKey)
        ELSE createManagementClient(finalApiKey, finalEnvironmentId)

\* createMapiClient(environmentId?, apiKey?) called where getStore() gives
\* `store` and process.env is `env`
createMapiClient(environmentId, apiKey, store, env) ==
    LET lookup == getRequestContext(store)
        finalApiKey ==
            IF lookup.ok
            THEN Coalesce(apiKey, lookup.context.apiKey)
            ELSE Coalesce(apiKey, env.KONTENT_API_KEY)
        finalEnvironmentId ==
            IF lookup.ok
            THEN Coalesce(environmentId, lookup.context.environmentId)
            ELSE Coalesce(environmentId, env.KONTENT_ENVIRONMENT_ID)
    IN  IF Falsy(finalApiKey) THEN throwError(MissingApiKey)
        ELSE IF Falsy(finalEnvironmentId) THEN throwError(MissingEnvironmentId)
        ELSE createManagementClient(finalApiKey, finalEnvironmentId)

-----------------------------------------------------------------------------
(* SpecCtx: asynchronous executions on one thread, under AsyncLocalStorage *)

TaskIds == 1 .. MaxTasks

\* the identities of two tenants
Contexts == {RequestContext(<<"a">>, <<"1">>), RequestContext(<<"b">>, <<"2">>)}

\* process.env: each variable unset or set
ProcessEnvs ==
    [KONTENT_API_KEY : {undefined, <<"k">>}, KONTENT_ENVIRONMENT_ID : {undefined, <<"e">>}]

\* arguments of createMapiClient: omitted, the empty string, or a value
ApiKeyArgs == {undefined, EmptyString, <<"x">>}

EnvironmentIdArgs == {undefined, EmptyString, <<"y">>}

\* what a function hands its caller: a value it returned, an error it threw,
\* or (an async function at its first await) its promise; `of` is the
\* execution that produced it
ResultKinds == {"value", "error"}

NoResultYet == [kind |-> "none", of |-> 0]

\* runWithContext without the `return`: the value is lost, a throw still
\* passes
runResultDropped(fnResult) ==
    IF fnResult.kind = "error" THEN fnResult ELSE [kind |-> "undefined", of |-> 0]

\* line 22: `return requestContextStorage.run(context, fn)`: run hands back
\* what fn returned and lets what fn threw pass
runResult(fnResult) == fnResult

FreeTask == [status |-> "free", store |-> NoStore, extent |-> NoStore]

\* lastCall: what was called with which arguments, the extent the caller was
\* causally in, what the call gave, and what else was going on at that moment
NoCall ==
    [op |-> "none", environmentId |-> undefined, apiKey |-> undefined,
     extent |-> NoStore, ok |-> FALSE, context |-> NoStore, client |-> NoClient,
     error |-> "", extentDone |-> FALSE, otherLive |-> FALSE, prior |-> "none",
     fnResult |-> NoResultYet, runResult |-> NoResultYet]

Running == callStack # <<>>

TopFrame == callStack[Len(callStack)]

\* the execution whose code is running now
Top == TopFrame.task

\* the lowest unused execution id
IsNextFree(t) ==
    /\ tasks[t].status = "free"
    /\ \A u \in TaskIds : u < t => tasks[u].status # "free"

\* some bound extent has run to its end
SomeExtentDone ==
    \E u \in TaskIds : tasks[u].status = "done" /\ tasks[u].extent.bound

\* an execution of an extent with another identity than t's is suspended or running
OtherExtentLive(t) ==
    \E u \in TaskIds :
        /\ u # t
        /\ tasks[u].status \in {"pending", "running"}
        /\ tasks[u].extent.bound
        /\ tasks[u].extent # tasks[t].extent

\* no asynchronous execution exists
CtxIdle ==
    /\ tasks = [t \in TaskIds |-> FreeTask]
    /\ callStack = <<>>
    /\ currentStore = NoStore
    /\ lastCall = NoCall

\* The event loop starts a callback that no extent encloses (e.g. an incoming
\* request reaching its route handler).
Enter(t) ==
    /\ ~Running
    /\ IsNextFree(t)
    /\ tasks' = [tasks EXCEPT ![t] = [status |-> "running", store |-> NoStore,
                                      extent |-> NoStore]]
    /\ callStack' = <<[task |-> t, oldStore |-> currentStore]>>
    /\ currentStore' = NoStore
    /\ UNCHANGED <<lastCall, processEnv, authVars, serverVars>>

\* the store set and never restored: enterWith(context) followed by fn()
RunWithContextEnterWith(t, context) ==
    /\ Running
    /\ IsNextFree(t)
    /\ tasks' = [tasks EXCEPT ![t] = [status |-> "running", store |-> context,
                                      extent |-> context]]
    /\ callStack' = Append(callStack, [task |-> t, oldStore |-> context])
    /\ currentStore' = context
    /\ UNCHANGED <<lastCall, processEnv, authVars, serverVars>>

\* runWithContext(context, fn): requestContextStorage.run(context, fn) sets the
\* store for the synchronous call of fn and restores the old one when fn
\* returns (at its end or its first await); t is the execution of fn.
RunWithContext(t, context) ==
    /\ Running
    /\ IsNextFree(t)
    /\ tasks' = [tasks EXCEPT ![t] = [status |-> "running",
                                      store |-> runStore(context, currentStore),
                                      extent |-> context]]
    /\ callStack' = Append(callStack, [task |-> t, oldStore |-> currentStore])
    /\ currentStore' = runStore(context, currentStore)
    /\ UNCHANGED <<lastCall, processEnv, authVars, serverVars>>

\* The running code schedules asynchronous work (a timer, a promise callback):
\* the new async resource copies the store of the resource that created it.
Spawn(t) ==
    /\ Running
    /\ IsNextFree(t)
    /\ tasks' = [tasks EXCEPT ![t] = [status |-> "pending", store |-> currentStore,
                                      extent |-> tasks[Top].extent]]
    /\ UNCHANGED <<callStack, currentStore, lastCall, processEnv, authVars, serverVars>>

\* The running code calls getRequestContext().
GetRequestContext ==
    /\ Running
    /\ LET r == getRequestContext(currentStore)
       IN  lastCall' =
              [NoCall EXCEPT !.op = "getRequestContext",
                             !.extent = tasks[Top].extent,
                             !.ok = r.ok, !.context = r.context, !.error = r.error,
                             !.extentDone = SomeExtentDone,
                             !.otherLive = OtherExtentLive(Top)]
    /\ UNCHANGED <<tasks, callStack, currentStore, processEnv, authVars, serverVars>>

\* how the call before this one relates to it: no factory call, a factory
\* call made in the same extent, or one made in another extent (or in none)
PriorCall ==
    IF lastCall.op # "createMapiClient" THEN "none"
    ELSE IF lastCall.extent = tasks[Top].extent THEN "same"
    ELSE "other"

\* a factory that keeps the client of its last successful call and hands it
\* out again
CreateMapiClientCached(environmentId, apiKey) ==
    /\ Running
    /\ LET fresh == createMapiClient(environmentId, apiKey, currentStore, processEnv)
           r == IF lastCall.op = "createMapiClient" /\ lastCall.ok
                THEN createManagementClient(lastCall.client.apiKey,
                                            lastCall.client.environmentId)
                ELSE fresh
       IN  lastCall' =
              [NoCall EXCEPT !.op = "createMapiClient",
                             !.environmentId = environmentId, !.apiKey = apiKey,
                             !.extent = tasks[Top].extent,
                             !.ok = r.ok, !.client = r.client, !.error = r.error,
                             !.extentDone = SomeExtentDone,
                             !.otherLive = OtherExtentLive(Top),
                             !.prior = PriorCall]
    /\ UNCHANGED <<tasks, callStack, currentStore, processEnv, authVars, serverVars>>

\* The running code calls createMapiClient(environmentId, apiKey).
CreateMapiClient(environmentId, apiKey) ==
    /\ Running
    /\ LET r == createMapiClient(environmentId, apiKey, currentStore, processEnv)
       IN  lastCall' =
              [NoCall EXCEPT !.op = "createMapiClient",
                             !.environmentId = environmentId, !.apiKey = apiKey,
                             !.extent = tasks[Top].extent,
                             !.ok = r.ok, !.client = r.client, !.error = r.error,
                             !.extentDone = SomeExtentDone,
                             !.otherLive = OtherExtentLive(Top),
                             !.prior = PriorCall]
    /\ UNCHANGED <<tasks, callStack, currentStore, processEnv, authVars, serverVars>>

\* A frame above the first is the fn of a runWithContext call; when it leaves
\* the stack, that call comes back to its caller with what fn handed over.
RunWithContextCall(fnResult) ==
    [NoCall EXCEPT !.op = "runWithContext",
                   !.extent = tasks[Top].extent,
                   !.fnResult = fnResult,
                   !.runResult = runResult(fnResult)]

\* The running code awaits: its continuation keeps the store, the frame is
\* left, and the caller (if any) goes on with the store it had.
Await ==
    /\ Running
    /\ tasks' = [tasks EXCEPT ![Top].status = "pending", ![Top].store = currentStore]
    /\ currentStore' = TopFrame.oldStore
    /\ callStack' = SubSeq(callStack, 1, Len(callStack) - 1)
    /\ lastCall' = IF Len(callStack) >= 2
                   THEN RunWithContextCall([kind |-> "promise", of |-> Top])
                   ELSE lastCall
    /\ UNCHANGED <<processEnv, authVars, serverVars>>

\* a return that leaves the store of the extent that ended in place
ReturnKeepsStore(kind) ==
    /\ Running
    /\ tasks' = [tasks EXCEPT ![Top].status = "done"]
    /\ currentStore' = currentStore
    /\ callStack' = SubSeq(callStack, 1, Len(callStack) - 1)
    /\ lastCall' = IF Len(callStack) >= 2
                   THEN RunWithContextCall([kind |-> kind, of |-> Top])
                   ELSE lastCall
    /\ UNCHANGED <<processEnv, authVars, serverVars>>

\* The running code ends for good, returning a value or throwing.
Return(kind) ==
    /\ Running
    /\ tasks' = [tasks EXCEPT ![Top].status = "done"]
    /\ currentStore' = TopFrame.oldStore
    /\ callStack' = SubSeq(callStack, 1, Len(callStack) - 1)
    /\ lastCall' = IF Len(callStack) >= 2
                   THEN RunWithContextCall([kind |-> kind, of |-> Top])
                   ELSE lastCall
    /\ UNCHANGED <<processEnv, authVars, serverVars>>

\* The event loop resumes a suspended execution with the store it captured.
Resume(t) ==
    /\ ~Running
    /\ tasks[t].status = "pending"
    /\ tasks' = [tasks EXCEPT ![t].status = "running"]
    /\ callStack' = <<[task |-> t, oldStore |-> currentStore]>>
    /\ currentStore' = tasks[t].store
    /\ UNCHANGED <<lastCall, processEnv, authVars, serverVars>>

NextCtx ==
    \/ \E t \in TaskIds : Enter(t)
    \/ \E t \in TaskIds, context \in Contexts : RunWithContext(t, context)
    \/ \E t \in TaskIds : Spawn(t)
    \/ GetRequestContext
    \/ \E environmentId \in EnvironmentIdArgs, apiKey \in ApiKeyArgs :
          CreateMapiClient(environmentId, apiKey)
    \/ Await
    \/ \E kind \in ResultKinds : Return(kind)
    \/ \E t \in TaskIds : Resume(t)

\* requestContextStorage is exported (line 8), so code running in an extent
\* can call requestContextStorage.enterWith(context) on it: the store of the
\* current execution is replaced for the rest of its synchronous run and for
\* the asynchronous work it starts from then on.
EnterWith(context) ==
    /\ Running
    /\ currentStore' = context
    /\ UNCHANGED <<tasks, callStack, lastCall, processEnv, authVars, serverVars>>

\* the context carrier alone, with every operation its module exports
NextCtxOpen ==
    \/ \E t \in TaskIds : Enter(t)
    \/ \E t \in TaskIds, context \in Contexts : RunWithContext(t, context)
    \/ \E t \in TaskIds : Spawn(t)
    \/ GetRequestContext
    \/ Await
    \/ \E kind \in ResultKinds : Return(kind)
    \/ \E t \in TaskIds : Resume(t)
    \/ \E context \in Contexts : EnterWith(context)

-----------------------------------------------------------------------------
(* src/bin.ts: startStreamableHTTP and startSSE *)

RequestIds == 1 .. MaxRequests

\* header pairs of inbound requests: two tenants, a request without headers,
\* a request with a credential but no namespace, one with an empty credential
\* and one with an empty namespace
RequestHeaders ==
    { [authorization |-> BearerPrefix \o <<"a">>, xEnvironmentId |-> <<"1">>],
      [authorization |-> BearerPrefix \o <<"b">>, xEnvironmentId |-> <<"2">>],
      [authorization |-> undefined, xEnvironmentId |-> undefined],
      [authorization |-> BearerPrefix \o <<"a">>, xEnvironmentId |-> undefined],
      [authorization |-> BearerPrefix, xEnvironmentId |-> <<"1">>],
      [authorization |-> BearerPrefix \o <<"b">>, xEnvironmentId |-> EmptyString] }

NoResult == throwError("")

NoRequest ==
    [status |-> "none", route |-> "", req |-> NewRequest(undefined, undefined),
     res |-> NoResponse, store |-> NoStore, via |-> 0, client |-> NoResult]

IsNextRequest(r) ==
    /\ requests[r].status = "none"
    /\ \A q \in RequestIds : q < r => requests[q].status # "none"

\* the middleware installed in both modes
applyMiddlewareAlways(h) ==
    authMiddleware(NewRequest(h.authorization, h.xEnvironmentId))

\* app.use(authMiddleware) only in multi-tenant mode (lines 19-21, 124-126)
applyMiddleware(h) ==
    IF multiTenant
    THEN authMiddleware(NewRequest(h.authorization, h.xEnvironmentId))
    ELSE [req  |-> NewRequest(h.authorization, h.xEnvironmentId),
          res  |-> NoResponse,
          next |-> 1]

\* the handler function always called directly
handlerStoreUnbound(r) == NoStore

\* lines 54-66 and 152-162: the store the handler function runs under
handlerStore(r) ==
    IF multiTenant /\ ~Falsy(r.apiKey)
    THEN runStore(RequestContext(r.apiKey, r.environmentId), NoStore)
    ELSE NoStore

ServerIdle ==
    /\ multiTenant = FALSE
    /\ transportType = "shttp"
    /\ requests = [r \in RequestIds |-> NoRequest]
    /\ transport = 0

Init ==
    /\ multiTenant \in BOOLEAN
    /\ transportType \in {"shttp", "sse"}
    /\ requests = [r \in RequestIds |-> NoRequest]
    /\ transport = 0
    /\ processEnv \in ProcessEnvs
    /\ AuthIdle
    /\ CtxIdle

\* POST /mcp up to the first await of handleRequest: the middleware, then the
\* route handler, which binds the context and starts handleRequest.
PostMcp(r, h) ==
    /\ transportType = "shttp"
    /\ IsNextRequest(r)
    /\ LET out == applyMiddleware(h)
       IN  requests' = [requests EXCEPT ![r] =
              IF out.next = 0
              THEN [NoRequest EXCEPT !.status = "rejected", !.route = "POST /mcp",
                                     !.req = out.req, !.res = out.res]
              ELSE [NoRequest EXCEPT !.status = "handling", !.route = "POST /mcp",
                                     !.req = out.req, !.res = out.res,
                                     !.store = handlerStore(out.req)]]
    /\ UNCHANGED <<multiTenant, transportType, transport, processEnv, authVars, ctxVars>>

\* GET /sse: the middleware, then handleConnection, called without a context
\* in both branches of lines 137-144; it assigns `transport`.
GetSse(r, h) ==
    /\ transportType = "sse"
    /\ IsNextRequest(r)
    /\ LET out == applyMiddleware(h)
       IN  /\ requests' = [requests EXCEPT ![r] =
                 IF out.next = 0
                 THEN [NoRequest EXCEPT !.status = "rejected", !.route = "GET /sse",
                                        !.req = out.req, !.res = out.res]
                 ELSE [NoRequest EXCEPT !.status = "connected", !.route = "GET /sse",
                                        !.req = out.req, !.res = out.res,
                                        !.store = NoStore]]
           /\ transport' = IF out.next = 0 THEN transport ELSE r
    /\ UNCHANGED <<multiTenant, transportType, processEnv, authVars, ctxVars>>

\* POST /message up to the first await of handlePostMessage: the middleware,
\* then the route handler, which binds the context and hands the request to
\* whatever `transport` holds now; with no connection yet, `transport` is
\* undefined and the call throws.
PostMessage(r, h) ==
    /\ transportType = "sse"
    /\ IsNextRequest(r)
    /\ LET out == applyMiddleware(h)
       IN  requests' = [requests EXCEPT ![r] =
              IF out.next = 0
              THEN [NoRequest EXCEPT !.status = "rejected", !.route = "POST /message",
                                     !.req = out.req, !.res = out.res]
              ELSE IF transport = 0
              THEN [NoRequest EXCEPT !.status = "failed", !.route = "POST /message",
                                     !.req = out.req, !.res = out.res,
                                     !.store = handlerStore(out.req)]
              ELSE [NoRequest EXCEPT !.status = "handling", !.route = "POST /message",
                                     !.req = out.req, !.res = out.res,
                                     !.store = handlerStore(out.req),
                                     !.via = transport]]
    /\ UNCHANGED <<multiTenant, transportType, transport, processEnv, authVars, ctxVars>>

\* The protocol logic of a request runs (transport.handleRequest, or the
\* message handed to the server by handlePostMessage): a tool calls
\* createMapiClient() under the store the handler captured; the result goes out
\* on the request's own response (POST /mcp) or on the stream of the
\* transport that took the message (POST /message).
HandleProtocol(r) ==
    /\ requests[r].status = "handling"
    /\ requests' = [requests EXCEPT
          ![r].status = "done",
          ![r].client = createMapiClient(undefined, undefined, requests[r].store, processEnv)]
    /\ UNCHANGED <<multiTenant, transportType, transport, processEnv, authVars, ctxVars>>

Next ==
    \/ \E r \in RequestIds, h \in RequestHeaders : PostMcp(r, h)
    \/ \E r \in RequestIds, h \in RequestHeaders : GetSse(r, h)
    \/ \E r \in RequestIds, h \in RequestHeaders : PostMessage(r, h)
    \/ \E r \in RequestIds : HandleProtocol(r)

Spec == Init /\ [][Next]_vars

-----------------------------------------------------------------------------
(* The specifications of the context carrier and of the middleware alone *)

InitCtx ==
    /\ CtxIdle
    /\ processEnv \in ProcessEnvs
    /\ AuthIdle
    /\ ServerIdle

SpecCtx == InitCtx /\ [][NextCtx]_vars

SpecCtxOpen == InitCtx /\ [][NextCtxOpen]_vars

InitAuth ==
    /\ AuthInputs
    /\ CtxIdle
    /\ ServerIdle
    /\ processEnv = [KONTENT_API_KEY |-> undefined, KONTENT_ENVIRONMENT_ID |-> undefined]

SpecAuth == InitAuth /\ [][NextAuth]_vars

-----------------------------------------------------------------------------
(* Claims about authMiddleware, checked under SpecAuth *)

\* the three checks, stated on the headers the request arrived with
HeaderMissingOrMalformed(r) ==
    \/ r.authorization = undefined
    \/ ~StartsWith(r.authorization, BearerPrefix)

HeaderEmptyCredential(r) == r.authorization = BearerPrefix

HeaderMissingNamespace(r) ==
    r.xEnvironmentId = undefined \/ r.xEnvironmentId = EmptyString

FailsSomeCheck(r) ==
    HeaderMissingOrMalformed(r) \/ HeaderEmptyCredential(r) \/ HeaderMissingNamespace(r)

Rejected == res.sent /\ nextCalls = 0

Proceeded == ~res.sent /\ nextCalls = 1

\* C4: after authMiddleware has run, either a rejection was sent and next()
\* was never called, or next() was called exactly once and nothing was sent;
\* a request failing any of the three checks is rejected.
Thm_C4_RejectXorProceed ==
    authDone =>
        /\ Rejected \/ Proceeded
        /\ FailsSomeCheck(req) => Rejected

\* a request with a good credential and no namespace header was rejected
Wit_C4_NamespaceRejected ==
    /\ authDone
    /\ ~HeaderMissingOrMalformed(req)
    /\ ~HeaderEmptyCredential(req)
    /\ req.xEnvironmentId = undefined
    /\ Rejected

\* C5: after authMiddleware rejects a request, the request carries neither
\* apiKey nor environmentId.
Cex_C5_NoPartialIdentity ==
    (authDone /\ res.sent) =>
        /\ req.apiKey = undefined
        /\ req.environmentId = undefined

\* C6: a missing or malformed Authorization header is rejected with -32001
\* "Unauthorized: Bearer token required"; the header `Bearer ` with an empty
\* remainder with -32001 "Unauthorized: Invalid Bearer token"; a valid
\* Authorization header with an absent or empty X-Environment-ID with -32602
\* "Bad Request: X-Environment-ID header required"; every rejection has id null.
Thm_C6_RejectionClasses ==
    authDone =>
        /\ HeaderMissingOrMalformed(req) =>
              /\ res.sent
              /\ res.code = -32001
              /\ res.message = "Unauthorized: Bearer token required"
        /\ HeaderEmptyCredential(req) =>
              /\ res.sent
              /\ res.code = -32001
              /\ res.message = "Unauthorized: Invalid Bearer token"
        /\ (~HeaderMissingOrMalformed(req) /\ ~HeaderEmptyCredential(req)
              /\ HeaderMissingNamespace(req)) =>
              /\ res.sent
              /\ res.code = -32602
              /\ res.message = "Bad Request: X-Environment-ID header required"
        /\ res.sent => res.id = "null"

\* the header `Bearer ` with nothing after it was rejected as an empty credential
Wit_C6_EmptyCredentialRejected ==
    /\ authDone
    /\ req.authorization = BearerPrefix
    /\ res.sent
    /\ res.message = "Unauthorized: Invalid Bearer token"

ValidCredentials == SeqsUpTo(TokenChars, MaxTokenLen) \ {EmptyString}

ValidNamespaces == SeqsUpTo(NamespaceChars, MaxTokenLen) \ {EmptyString}

\* C7: for every non-empty credential c and namespace n, a request carrying
\* `Authorization: Bearer c` and `X-Environment-ID: n` leaves the middleware
\* with apiKey = c and environmentId = n, unmodified, and proceeds.
Thm_C7_ExactValuesAttached ==
    authDone =>
        \A c \in ValidCredentials, n \in ValidNamespaces :
            (req.authorization = BearerPrefix \o c /\ req.xEnvironmentId = n) =>
                /\ req.apiKey = c
                /\ req.environmentId = n
                /\ Proceeded

\* a credential and a namespace with surrounding whitespace went through as they were
Wit_C7_WhitespaceKept ==
    /\ authDone
    /\ req.authorization = BearerPrefix \o <<" ", "a">>
    /\ req.xEnvironmentId = <<"1", " ">>
    /\ req.apiKey = <<" ", "a">>
    /\ req.environmentId = <<"1", " ">>
    /\ nextCalls = 1

\* C8 as stated: the credential is the substring after the `Bearer ` marker,
\* trimmed of surrounding whitespace.
Cex_C8_CredentialTrimmed ==
    (authDone /\ req.apiKey # undefined) =>
        req.apiKey = Trim(Substring(req.authorization, BearerPrefixLen))

\* C8 (amended): the credential is the substring of the Authorization header
\* after the `Bearer ` marker exactly as received, with no trimming: the
\* header is the marker followed by the credential.
Thm_C8_CredentialIsRemainder ==
    (authDone /\ req.apiKey # undefined) =>
        req.authorization = BearerPrefix \o req.apiKey

\* a credential that trimming would have changed was attached
Wit_C8_UntrimmedCredential ==
    /\ authDone
    /\ req.apiKey # undefined
    /\ req.apiKey # Trim(req.apiKey)

\* C21: authMiddleware checks the credential before the namespace: a request
\* whose Authorization header is missing, malformed or empty is rejected with
\* HTTP 401 and code -32001 whether or not X-Environment-ID is present, and
\* HTTP 400 with code -32602 is sent only to a request whose credential check
\* passed.
Thm_C21_CredentialCheckedFirst ==
    authDone =>
        /\ (HeaderMissingOrMalformed(req) \/ HeaderEmptyCredential(req)) =>
              /\ Rejected
              /\ res.status = 401
              /\ res.code = -32001
        /\ (res.status = 400 \/ res.code = -32602) =>
              /\ res.status = 400
              /\ res.code = -32602
              /\ ~HeaderMissingOrMalformed(req)
              /\ ~HeaderEmptyCredential(req)
              /\ HeaderMissingNamespace(req)

\* a request failing both checks, with no usable credential and no
\* namespace, was answered 401 / -32001
Wit_C21_BothMissingAnsweredUnauthorized ==
    /\ authDone
    /\ HeaderMissingOrMalformed(req)
    /\ req.authorization # undefined
    /\ HeaderMissingNamespace(req)
    /\ res.sent
    /\ res.status = 401
    /\ res.code = -32001

-----------------------------------------------------------------------------
(* Claims about the context carrier and the client factory, checked under SpecCtx *)

\* C1: with extents of different identities interleaved on one thread, every
\* getRequestContext() made causally inside an extent returns the identity
\* that extent was started with, never another extent's.
Thm_C1_LookupReturnsOwnExtent ==
    (lastCall.op = "getRequestContext" /\ lastCall.extent.bound) =>
        /\ lastCall.ok
        /\ lastCall.context = lastCall.extent

\* an extent, resumed by the event loop, looks up its identity while an extent
\* with the other identity is suspended half-way
Wit_C1_LookupWhileOtherSuspended ==
    /\ lastCall.op = "getRequestContext"
    /\ lastCall.extent.bound
    /\ lastCall.otherLive
    /\ Len(callStack) = 1
    /\ tasks[Top].extent = lastCall.extent
    /\ \E u \in TaskIds :
          /\ tasks[u].status = "pending"
          /\ tasks[u].extent.bound
          /\ tasks[u].extent # lastCall.extent

\* C9: getRequestContext() called outside every runWithContext extent fails
\* with the NoActiveContext error and returns no identity, before any extent
\* was started as well as after one has completed.
Thm_C9_NoActiveContextOutside ==
    (lastCall.op = "getRequestContext" /\ ~lastCall.extent.bound) =>
        /\ ~lastCall.ok
        /\ lastCall.error = NoActiveContext
        /\ lastCall.context = NoStore

\* a lookup from outside, made after an extent had run to its end, failed
Wit_C9_LookupAfterExtentDone ==
    /\ lastCall.op = "getRequestContext"
    /\ ~lastCall.extent.bound
    /\ lastCall.extentDone
    /\ ~lastCall.ok

NoArguments == lastCall.environmentId = undefined /\ lastCall.apiKey = undefined

FallbackSet ==
    ~Falsy(processEnv.KONTENT_API_KEY) /\ ~Falsy(processEnv.KONTENT_ENVIRONMENT_ID)

\* C10: createMapiClient() with no arguments inside an extent of identity
\* (x, y) builds the client with exactly (x, y) whatever process.env holds;
\* with no extent and both fallback variables set, it builds the client with
\* exactly the fallback pair.
Thm_C10_NoArgumentResolution ==
    (lastCall.op = "createMapiClient" /\ NoArguments) =>
        /\ lastCall.extent.bound =>
              /\ lastCall.ok
              /\ lastCall.client = [apiKey |-> lastCall.extent.apiKey,
                                    environmentId |-> lastCall.extent.environmentId]
        /\ (~lastCall.extent.bound /\ FallbackSet) =>
              /\ lastCall.ok
              /\ lastCall.client = [apiKey |-> processEnv.KONTENT_API_KEY,
                                    environmentId |-> processEnv.KONTENT_ENVIRONMENT_ID]

\* inside an extent, with the fallback set to other values, the client got the
\* extent's pair
Wit_C10_ExtentBeatsFallback ==
    /\ lastCall.op = "createMapiClient"
    /\ NoArguments
    /\ lastCall.extent.bound
    /\ FallbackSet
    /\ lastCall.ok
    /\ lastCall.client.apiKey = lastCall.extent.apiKey
    /\ lastCall.client.apiKey # processEnv.KONTENT_API_KEY

\* the resolution order the claims state, per field: the override if one was
\* passed, else the extent's value if the caller is in an extent, else the
\* process-wide fallback
ResolvedApiKey(call) ==
    IF call.apiKey # undefined THEN call.apiKey
    ELSE IF call.extent.bound THEN call.extent.apiKey
    ELSE processEnv.KONTENT_API_KEY

ResolvedEnvironmentId(call) ==
    IF call.environmentId # undefined THEN call.environmentId
    ELSE IF call.extent.bound THEN call.extent.environmentId
    ELSE processEnv.KONTENT_ENVIRONMENT_ID

Absent(v) == v = undefined \/ v = EmptyString

\* C11: createMapiClient resolves credential and namespace independently, each
\* from the explicit override if supplied, else from the bound extent if one
\* is active, else from the process-wide fallback; a client that is built
\* carries exactly the two values so resolved, and one is built whenever both
\* are present.
Thm_C11_ResolutionOrder ==
    lastCall.op = "createMapiClient" =>
        /\ lastCall.ok =>
              lastCall.client = [apiKey |-> ResolvedApiKey(lastCall),
                                 environmentId |-> ResolvedEnvironmentId(lastCall)]
        /\ (~Absent(ResolvedApiKey(lastCall)) /\ ~Absent(ResolvedEnvironmentId(lastCall)))
              => lastCall.ok

\* inside an extent and with the fallback set, only the credential was
\* overridden: the client has the override and the extent's namespace
Wit_C11_OneOverrideInExtent ==
    /\ lastCall.op = "createMapiClient"
    /\ lastCall.apiKey = <<"x">>
    /\ lastCall.environmentId = undefined
    /\ lastCall.extent.bound
    /\ FallbackSet
    /\ lastCall.ok
    /\ lastCall.client = [apiKey |-> <<"x">>,
                          environmentId |-> lastCall.extent.environmentId]

\* C12: with the credential absent after resolution createMapiClient fails with
\* the missing-API-key error; with only the namespace absent, with the
\* missing-environment-id error; with both absent, with the missing-API-key
\* error; in each failing case no client is constructed.
Thm_C12_MissingFieldErrors ==
    lastCall.op = "createMapiClient" =>
        /\ Absent(ResolvedApiKey(lastCall)) =>
              /\ ~lastCall.ok
              /\ lastCall.error = MissingApiKey
              /\ lastCall.client = NoClient
        /\ (~Absent(ResolvedApiKey(lastCall)) /\ Absent(ResolvedEnvironmentId(lastCall))) =>
              /\ ~lastCall.ok
              /\ lastCall.error = MissingEnvironmentId
              /\ lastCall.client = NoClient

\* no argument, no extent, no fallback: both fields absent, the API key reported
Wit_C12_BothAbsentReportsApiKey ==
    /\ lastCall.op = "createMapiClient"
    /\ Absent(ResolvedApiKey(lastCall))
    /\ Absent(ResolvedEnvironmentId(lastCall))
    /\ ~lastCall.ok
    /\ lastCall.error = MissingApiKey

\* what a factory call must give when it depends on nothing but its two
\* arguments, the extent of the caller and the fallback configuration
FactoryOutcome(environmentId, apiKey, extent) ==
    LET call == [environmentId |-> environmentId, apiKey |-> apiKey, extent |-> extent]
        k == ResolvedApiKey(call)
        n == ResolvedEnvironmentId(call)
    IN  IF Absent(k) THEN [ok |-> FALSE, client |-> NoClient, error |-> MissingApiKey]
        ELSE IF Absent(n)
        THEN [ok |-> FALSE, client |-> NoClient, error |-> MissingEnvironmentId]
        ELSE [ok |-> TRUE, client |-> [apiKey |-> k, environmentId |-> n], error |-> ""]

\* C13: the factory holds no cache: in every step that is a factory call,
\* whatever was called before and in whichever extent, the outcome is the one
\* determined by the extent the caller is in at that moment, the arguments of
\* that call and the fallback configuration.
Thm_C13_NoIdentityCache ==
    [][ (lastCall'.op = "createMapiClient" /\ lastCall' # lastCall) =>
            [ok |-> lastCall'.ok, client |-> lastCall'.client, error |-> lastCall'.error]
                = FactoryOutcome(lastCall'.environmentId, lastCall'.apiKey,
                                 tasks[Top].extent) ]_vars

\* right after a factory call made in another extent, a call from inside a
\* nested extent got the nested extent's pair
Wit_C13_CallAfterContextChange ==
    /\ lastCall.op = "createMapiClient"
    /\ lastCall.prior = "other"
    /\ NoArguments
    /\ Len(callStack) >= 3
    /\ lastCall.extent = tasks[Top].extent
    /\ tasks[callStack[Len(callStack) - 1].task].extent.bound
    /\ tasks[callStack[Len(callStack) - 1].task].extent # lastCall.extent
    /\ lastCall.ok
    /\ lastCall.client = [apiKey |-> lastCall.extent.apiKey,
                          environmentId |-> lastCall.extent.environmentId]

\* C14: a runWithContext nested in an extent shadows the outer identity for
\* the nested extent only. At every moment a lookup by the running code gives
\* the identity of the innermost extent it is causally in (none outside any);
\* every caller waiting on the stack gets its own identity back when the call
\* above it returns or suspends; and every suspended execution, of the outer
\* extent or of the nested one, resumes with its own.
Thm_C14_NestedExtentShadows ==
    /\ Running =>
          /\ getRequestContext(currentStore).ok = tasks[Top].extent.bound
          /\ getRequestContext(currentStore).context = tasks[Top].extent
    /\ \A i \in 2 .. Len(callStack) :
          callStack[i].oldStore = tasks[callStack[i - 1].task].extent
    /\ \A t \in TaskIds :
          tasks[t].status = "pending" => tasks[t].store = tasks[t].extent

\* the outer extent, still in its synchronous call, looked its identity up
\* and got it while work of an extent nested in it, with another identity,
\* was suspended
Wit_C14_OuterLookupWhileNestedSuspended ==
    /\ Len(callStack) = 2
    /\ tasks[Top].extent.bound
    /\ \E u \in TaskIds :
          /\ u > Top
          /\ tasks[u].status = "pending"
          /\ tasks[u].extent.bound
          /\ tasks[u].extent # tasks[Top].extent
    /\ lastCall.op = "getRequestContext"
    /\ lastCall.otherLive
    /\ lastCall.ok
    /\ lastCall.extent = tasks[Top].extent
    /\ lastCall.context = tasks[Top].extent

\* C15: within one bound extent the identity is immutable and lookups are
\* idempotent: a lookup that follows a successful lookup of the same extent
\* returns the same credential and namespace, whatever the code of the extent
\* did in between with the operations available to it.
Cex_C15_LookupsIdempotentInExtent ==
    [][ ( /\ lastCall.op = "getRequestContext"
          /\ lastCall.ok
          /\ lastCall.extent.bound
          /\ lastCall'.op = "getRequestContext"
          /\ lastCall'.extent = lastCall.extent ) =>
            /\ lastCall'.ok
            /\ lastCall'.context = lastCall.context ]_vars

\* C18: runWithContext hands its caller what the operation handed over,
\* unchanged: the value a synchronous operation returned, the error it threw,
\* or the very promise an asynchronous operation returned at its first await
\* (so that what the caller awaits settles as the operation does).
Thm_C18_ResultPassedUnchanged ==
    lastCall.op = "runWithContext" =>
        /\ lastCall.fnResult.kind \in ResultKinds \cup {"promise"}
        /\ lastCall.fnResult.of \in TaskIds
        /\ lastCall.runResult = lastCall.fnResult

\* an asynchronous operation suspended inside a bound extent, and its caller
\* got the promise of that very execution
Wit_C18_PromiseOfSuspendedOperation ==
    /\ lastCall.op = "runWithContext"
    /\ lastCall.extent.bound
    /\ lastCall.fnResult.kind = "promise"
    /\ lastCall.runResult.kind = "promise"
    /\ lastCall.runResult.of \in TaskIds
    /\ tasks[lastCall.runResult.of].status = "pending"
    /\ tasks[lastCall.runResult.of].extent = lastCall.extent

-----------------------------------------------------------------------------
(* Claims about the route handlers, checked under Spec *)

\* the request passed the middleware (or there was none) and reached its route handler
ReachedHandler(r) == requests[r].status \in {"handling", "connected", "done", "failed"}

SameTenant(q, r) ==
    /\ requests[q].req.authorization = requests[r].req.authorization
    /\ requests[q].req.xEnvironmentId = requests[r].req.xEnvironmentId

Connected(c) == requests[c].route = "GET /sse" /\ requests[c].status = "connected"

\* C2: in multi-tenant SSE mode with two or more tenants connected, a message
\* POSTed to /message by one of them is handled by the transport created for
\* that same tenant's GET /sse connection, so its result goes out on that
\* tenant's stream and on no other tenant's.
Cex_C2_MessageOnOwnTransport ==
    (multiTenant /\ transportType = "sse") =>
        \A m \in RequestIds :
            ( /\ requests[m].route = "POST /message"
              /\ requests[m].status = "done"
              /\ \E c \in RequestIds : c < m /\ Connected(c) /\ SameTenant(c, m)
              /\ \E c \in RequestIds : c < m /\ Connected(c) /\ ~SameTenant(c, m) ) =>
                /\ requests[m].via # 0
                /\ SameTenant(requests[m].via, m)

\* C3: in multi-tenant mode, every request that passed the middleware is
\* handled inside a runWithContext extent whose identity is the credential and
\* namespace of that request's own headers.
Cex_C3_HandledInsideOwnExtent ==
    multiTenant =>
        \A r \in RequestIds :
            ReachedHandler(r) =>
                /\ requests[r].store.bound
                /\ requests[r].req.authorization = BearerPrefix \o requests[r].store.apiKey
                /\ requests[r].req.xEnvironmentId = requests[r].store.environmentId

\* the request entered its route handler and an exception left the handler
\* uncaught, without a response
EscapedHandler(r) == requests[r].status = "failed" /\ ~requests[r].res.sent

\* C16: in any transport mode a failure while handling one request is
\* contained: a rejected request has its response, and no exception leaves a
\* route handler uncaught.
Cex_C16_FailureContained ==
    \A r \in RequestIds :
        /\ requests[r].status = "rejected" => requests[r].res.sent
        /\ ~EscapedHandler(r)

\* C17: in single-tenant mode the middleware runs on no request (nothing is
\* rejected, answered or attached), every request, with or without headers,
\* reaches its route handler, no handler runs under a bound context, and every
\* factory call gives what the fallback configuration alone determines.
Thm_C17_SingleTenantBypass ==
    ~multiTenant =>
        \A r \in RequestIds :
            requests[r].status # "none" =>
                /\ ReachedHandler(r)
                /\ ~requests[r].res.sent
                /\ requests[r].req.apiKey = undefined
                /\ requests[r].req.environmentId = undefined
                /\ ~requests[r].store.bound
                /\ requests[r].status = "done" =>
                      requests[r].client = FactoryOutcome(undefined, undefined, NoStore)

\* single-tenant: a request without any header was served with a client
\* built from the fallback pair
Wit_C17_HeaderlessRequestServed ==
    /\ ~multiTenant
    /\ \E r \in RequestIds :
          /\ requests[r].req.authorization = undefined
          /\ requests[r].req.xEnvironmentId = undefined
          /\ requests[r].status = "done"
          /\ requests[r].client.ok
          /\ requests[r].client.client =
                [apiKey |-> processEnv.KONTENT_API_KEY,
                 environmentId |-> processEnv.KONTENT_ENVIRONMENT_ID]

\* C19: every identity the transport layer binds has a non-empty credential
\* and a non-empty namespace, whatever headers the requests carried.
Thm_C19_BoundIdentityNonEmpty ==
    \A r \in RequestIds :
        requests[r].store.bound =>
            /\ ~Falsy(requests[r].store.apiKey)
            /\ ~Falsy(requests[r].store.environmentId)

\* multi-tenant: one request was bound to its identity, and a request whose
\* credential was attached but whose namespace was empty or missing got no
\* extent
Wit_C19_BoundWhileEmptyNamespaceRejected ==
    /\ multiTenant
    /\ \E r \in RequestIds : requests[r].store.bound
    /\ \E q \in RequestIds :
          /\ requests[q].status = "rejected"
          /\ ~Falsy(requests[q].req.apiKey)
          /\ requests[q].req.xEnvironmentId = EmptyString
          /\ ~requests[q].store.bound

\* C20: in multi-tenant mode every request that reaches a route handler
\* carries a non-empty apiKey, so the handlers of POST /mcp and POST /message
\* take the bound branch, and every factory call made for a request builds
\* the client from that request's own pair, never from the fallback values.
Thm_C20_FallbackUnusedForTenants ==
    multiTenant =>
        \A r \in RequestIds :
            ReachedHandler(r) =>
                /\ ~Falsy(requests[r].req.apiKey)
                /\ requests[r].route # "GET /sse" => requests[r].store.bound
                /\ requests[r].status = "done" =>
                      /\ requests[r].client.ok
                      /\ requests[r].client.client =
                            [apiKey |-> requests[r].req.apiKey,
                             environmentId |-> requests[r].req.environmentId]
                      /\ requests[r].client.client.apiKey # processEnv.KONTENT_API_KEY
                      /\ requests[r].client.client.environmentId
                            # processEnv.KONTENT_ENVIRONMENT_ID

\* multi-tenant, with the whole fallback pair set: a tenant's message was
\* served over SSE with a client built from the tenant's own pair
Wit_C20_TenantServedDespiteFallback ==
    /\ multiTenant
    /\ FallbackSet
    /\ \E r \in RequestIds :
          /\ requests[r].route = "POST /message"
          /\ requests[r].status = "done"
          /\ requests[r].client.ok
          /\ requests[r].client.client.apiKey = requests[r].req.apiKey

=============================================================================
